---- MODULE Spec2Model ----
(***************************************************************************)
(* A model of the gravlax lexer (src/src/lexer.rs).                        *)
(*                                                                         *)
(* A character is a one-character string, a source text a sequence of      *)
(* characters.  The Peekable<Chars> iterator `code` is the number of       *)
(* characters already taken from source_code: peek() looks at              *)
(* source_code[code + 1], next() also adds one to code.                    *)
(***************************************************************************)
EXTENDS Integers, Sequences, FiniteSets, TLC

\* Longest source text drawn from Alphabet.
MaxLen == 3
\* Longest body of a line comment, and longest text after its newline.
MaxBody == 2
MaxRest == 2
\* Number of times lex is called on one Lexer.
MaxCalls == 2
\* line_number and column_number are u16.
U16 == 65536

(***************************************************************************)
(* Character classes of the dispatch in Lexer::lex.                        *)
(***************************************************************************)
Whitespace == {" ", "\r", "\t"}
Newline == "\n"
Quote == "\""
FixedSingleChars == {"(", ")", "{", "}", "+", "-", ",", ".", ";", "*"}
DoubleOrSingleChars == {"!", "=", "<", ">"}
Digits == {"0", "1", "2", "3", "4", "5", "6", "7", "8", "9"}
Letters ==
  {"A", "B", "C", "D", "E", "F", "G", "H", "I", "J", "K", "L", "M",
   "N", "O", "P", "Q", "R", "S", "T", "U", "V", "W", "X", "Y", "Z",
   "a", "b", "c", "d", "e", "f", "g", "h", "i", "j", "k", "l", "m",
   "n", "o", "p", "q", "r", "s", "t", "u", "v", "w", "x", "y", "z", "_"}
Recognized ==
  Whitespace \cup {Newline} \cup FixedSingleChars \cup DoubleOrSingleChars
    \cup {"/", Quote} \cup Digits \cup Letters

(***************************************************************************)
(* Token and its variants.                                                 *)
(***************************************************************************)
Eof == [type |-> "Eof"]
KeywordToken(k) == [type |-> "KeywordToken", tag |-> k]
Single(t) == [type |-> "Single", tag |-> t]
Double(t) == [type |-> "Double", tag |-> t]
Number(v) == [type |-> "LiteralToken", kind |-> "Number", num |-> v]
Identifier(s) == [type |-> "LiteralToken", kind |-> "Identifier", name |-> s]
StringLiteral(s) == [type |-> "LiteralToken", kind |-> "StringLiteral", str |-> s]

UnexpectedCharacter(character, location) ==
  [character |-> character, location |-> location]

KeywordLexemes ==
  (<<"a", "n", "d">> :> "And") @@
  (<<"c", "l", "a", "s", "s">> :> "Class") @@
  (<<"i", "f">> :> "If") @@
  (<<"e", "l", "s", "e">> :> "Else") @@
  (<<"t", "r", "u", "e">> :> "True") @@
  (<<"f", "a", "l", "s", "e">> :> "False") @@
  (<<"f", "u", "n">> :> "Fun") @@
  (<<"f", "o", "r">> :> "For") @@
  (<<"w", "h", "i", "l", "e">> :> "While") @@
  (<<"v", "a", "r">> :> "Var") @@
  (<<"n", "i", "l">> :> "Nil") @@
  (<<"o", "r">> :> "Or") @@
  (<<"p", "r", "i", "n", "t">> :> "Print") @@
  (<<"r", "e", "t", "u", "r", "n">> :> "Return") @@
  (<<"s", "u", "p", "e", "r">> :> "Super") @@
  (<<"t", "h", "i", "s">> :> "This")

LEXEME_TO_TOKEN_MAPPER ==
  [l \in DOMAIN KeywordLexemes |-> KeywordToken(KeywordLexemes[l])] @@
  (<<"(">> :> Single("LeftBrace")) @@
  (<<")">> :> Single("RightBrace")) @@
  (<<"{">> :> Single("LeftParenthesis")) @@
  (<<"}">> :> Single("RightParenthesis")) @@
  (<<"+">> :> Single("Plus")) @@
  (<<"-">> :> Single("Minus")) @@
  (<<",">> :> Single("Comma")) @@
  (<<".">> :> Single("Dot")) @@
  (<<";">> :> Single("SemiColon")) @@
  (<<"*">> :> Single("Star")) @@
  (<<"!">> :> Single("Not")) @@
  (<<"/">> :> Single("Slash")) @@
  (<<"!", "=">> :> Double("NotEqual")) @@
  (<<"=">> :> Single("EqualSign")) @@
  (<<"=", "=">> :> Double("EqualEqualSign")) @@
  (<<"<">> :> Single("LessThan")) @@
  (<<"<", "=">> :> Double("LessThanOrEqual")) @@
  (<<">">> :> Single("GreaterThan")) @@
  (<<">", "=">> :> Double("GreaterThanOrEqual"))

\* The variants of the enums SingleCharacterToken, DoubleCharacterToken and
\* Keyword.
SingleCharacterToken ==
  {"LeftParenthesis", "RightParenthesis", "LeftBrace", "RightBrace", "Comma",
   "Dot", "Minus", "Plus", "SemiColon", "Slash", "Star", "Not", "EqualSign",
   "GreaterThan", "LessThan"}

DoubleCharacterToken ==
  {"NotEqual", "EqualEqualSign", "GreaterThanOrEqual", "LessThanOrEqual"}

Keyword ==
  {"And", "Class", "If", "Else", "True", "False", "Fun", "For", "While",
   "Var", "Nil", "Or", "Print", "Return", "Super", "This"}

\* A token-to-lexeme table that follows the doc comments of the brackets
\* where the lexeme-to-token table does not.
TOKEN_TO_LEXEME_MAPPER_documented_brackets ==
  [t \in {KeywordToken(KeywordLexemes[l]) : l \in DOMAIN KeywordLexemes} |->
     CHOOSE l \in DOMAIN KeywordLexemes : KeywordLexemes[l] = t.tag] @@
  (Single("LeftParenthesis") :> <<"(">>) @@
  (Single("RightParenthesis") :> <<")">>) @@
  (Single("LeftBrace") :> <<"{">>) @@
  (Single("RightBrace") :> <<"}">>) @@
  (Single("Plus") :> <<"+">>) @@
  (Single("Minus") :> <<"-">>) @@
  (Single("Comma") :> <<",">>) @@
  (Single("Dot") :> <<".">>) @@
  (Single("SemiColon") :> <<";">>) @@
  (Single("Star") :> <<"*">>) @@
  (Single("Not") :> <<"!">>) @@
  (Single("Slash") :> <<"/">>) @@
  (Double("NotEqual") :> <<"!", "=">>) @@
  (Single("EqualSign") :> <<"=">>) @@
  (Double("EqualEqualSign") :> <<"=", "=">>) @@
  (Single("LessThan") :> <<"<">>) @@
  (Double("LessThanOrEqual") :> <<"<", "=">>) @@
  (Single("GreaterThan") :> <<">">>) @@
  (Double("GreaterThanOrEqual") :> <<">", "=">>)

TOKEN_TO_LEXEME_MAPPER ==
  (KeywordToken("And") :> <<"a", "n", "d">>) @@
  (KeywordToken("Class") :> <<"c", "l", "a", "s", "s">>) @@
  (KeywordToken("If") :> <<"i", "f">>) @@
  (KeywordToken("Else") :> <<"e", "l", "s", "e">>) @@
  (KeywordToken("True") :> <<"t", "r", "u", "e">>) @@
  (KeywordToken("False") :> <<"f", "a", "l", "s", "e">>) @@
  (KeywordToken("Fun") :> <<"f", "u", "n">>) @@
  (KeywordToken("For") :> <<"f", "o", "r">>) @@
  (KeywordToken("While") :> <<"w", "h", "i", "l", "e">>) @@
  (KeywordToken("Var") :> <<"v", "a", "r">>) @@
  (KeywordToken("Nil") :> <<"n", "i", "l">>) @@
  (KeywordToken("Or") :> <<"o", "r">>) @@
  (KeywordToken("Print") :> <<"p", "r", "i", "n", "t">>) @@
  (KeywordToken("Return") :> <<"r", "e", "t", "u", "r", "n">>) @@
  (KeywordToken("Super") :> <<"s", "u", "p", "e", "r">>) @@
  (KeywordToken("This") :> <<"t", "h", "i", "s">>) @@
  (Single("LeftBrace") :> <<"(">>) @@
  (Single("RightBrace") :> <<")">>) @@
  (Single("LeftParenthesis") :> <<"{">>) @@
  (Single("RightParenthesis") :> <<"}">>) @@
  (Single("Plus") :> <<"+">>) @@
  (Single("Minus") :> <<"-">>) @@
  (Single("Comma") :> <<",">>) @@
  (Single("Dot") :> <<".">>) @@
  (Single("SemiColon") :> <<";">>) @@
  (Single("Star") :> <<"*">>) @@
  (Single("Not") :> <<"!">>) @@
  (Single("Slash") :> <<"/">>) @@
  (Double("NotEqual") :> <<"!", "=">>) @@
  (Single("EqualSign") :> <<"=">>) @@
  (Double("EqualEqualSign") :> <<"=", "=">>) @@
  (Single("LessThan") :> <<"<">>) @@
  (Double("LessThanOrEqual") :> <<"<", "=">>) @@
  (Single("GreaterThan") :> <<">">>) @@
  (Double("GreaterThanOrEqual") :> <<">", "=">>)

(***************************************************************************)
(* Location.                                                               *)
(***************************************************************************)
LocationDefault == [line_number |-> 0, column_number |-> 0]

advance_col(loc) ==
  [loc EXCEPT !.column_number = (@ + 1) % U16]

\* A row advance that forgets the line.
advance_row_keeps_line(loc) ==
  [loc EXCEPT !.column_number = 0]

advance_row(loc) ==
  [line_number |-> (loc.line_number + 1) % U16, column_number |-> 0]

(***************************************************************************)
(* The iterator over source_code.                                          *)
(***************************************************************************)
NoChar == "<none>"

peek(src, code) ==
  IF code < Len(src) THEN src[code + 1] ELSE NoChar

\* A look-ahead that consumes the character it peeked, matching or not.
one_step_look_ahead_always_consumes(expect, src, code) ==
  IF peek(src, code) # NoChar
    THEN [matched |-> peek(src, code) = expect, code |-> code + 1]
    ELSE [matched |-> FALSE, code |-> code]

\* A look-ahead that never finds the expected character.
one_step_look_ahead_never_matches(expect, src, code) ==
  [matched |-> FALSE, code |-> code]

\* Peek at the next character; consume it only when it is the expected one.
one_step_look_ahead(expect, src, code) ==
  IF peek(src, code) # NoChar /\ peek(src, code) = expect
    THEN [matched |-> TRUE, code |-> code + 1]
    ELSE [matched |-> FALSE, code |-> code]

add_double_or_single_token(tokens, current_character, src, code) ==
  LET expected_next_character == "="
      ahead == one_step_look_ahead(expected_next_character, src, code)
  IN  IF ahead.matched
        THEN [tokens |-> Append(tokens,
                LEXEME_TO_TOKEN_MAPPER[<<current_character, expected_next_character>>]),
              code |-> ahead.code]
        ELSE [tokens |-> Append(tokens, LEXEME_TO_TOKEN_MAPPER[<<current_character>>]),
              code |-> ahead.code]

\* A comment whose body is not skipped.
skip_while_not_newline_skips_nothing(src, code) ==
  [found |-> FALSE, code |-> code]

\* code.skip_while(|c| c != '\n').next(): the number of characters taken
\* once the first newline at or after the iterator has been returned, or
\* the whole source when there is none.
RECURSIVE skip_while_not_newline(_, _)
skip_while_not_newline(src, code) ==
  IF code >= Len(src) THEN [found |-> FALSE, code |-> Len(src)]
  ELSE IF src[code + 1] = Newline THEN [found |-> TRUE, code |-> code + 1]
  ELSE skip_while_not_newline(src, code + 1)

consume_comment(tokens, current_character, current_location, src, code) ==
  LET expected_next_char == "/"
      ahead == one_step_look_ahead(expected_next_char, src, code)
      skipped == skip_while_not_newline(src, ahead.code)
  IN  IF ahead.matched
        THEN [tokens |-> tokens,
              current_location |-> IF skipped.found
                                     THEN advance_row(current_location)
                                     ELSE current_location,
              code |-> skipped.code]
        ELSE [tokens |-> Append(tokens, LEXEME_TO_TOKEN_MAPPER[<<current_character>>]),
              current_location |-> current_location,
              code |-> ahead.code]

\* The `for character in code` loop of add_string_literal.
RECURSIVE string_literal_loop(_, _, _, _, _)
string_literal_loop(tokens, current_location, src, code, maybe_string) ==
  IF code >= Len(src)
    THEN [tokens |-> tokens, current_location |-> current_location, code |-> code]
  ELSE LET character == src[code + 1] IN
    IF character = Quote
      THEN [tokens |-> Append(tokens, StringLiteral(maybe_string)),
            current_location |-> advance_col(current_location),
            code |-> code + 1]
      ELSE string_literal_loop(
             tokens,
             IF character = Newline THEN advance_row(current_location)
                                    ELSE advance_col(current_location),
             src, code + 1, Append(maybe_string, character))

\* A string literal that keeps its closing quote in the value.
add_string_literal_keeps_quote(tokens, current_location, src, code) ==
  LET r == string_literal_loop(tokens, current_location, src, code, <<>>)
  IN  IF Len(r.tokens) > Len(tokens)
        THEN [r EXCEPT !.tokens =
                Append(tokens, StringLiteral(Append(r.tokens[Len(r.tokens)].str, Quote)))]
        ELSE r

\* A string literal that is pushed also when the input ends before the
\* closing quote.
add_string_literal_emits_unterminated(tokens, current_location, src, code) ==
  LET r == string_literal_loop(tokens, current_location, src, code, <<>>)
  IN  IF Len(r.tokens) > Len(tokens)
        THEN r
        ELSE [r EXCEPT !.tokens =
                Append(tokens, StringLiteral(SubSeq(src, code + 1, Len(src))))]

add_string_literal(tokens, current_location, src, code) ==
  string_literal_loop(tokens, current_location, src, code, <<>>)

(***************************************************************************)
(* str::parse::<f32>() on a text of digits and '.' that starts with a      *)
(* digit: an error when the text holds more than one '.', else the decimal *)
(* value mantissa / 10^scale, kept in lowest terms (no trailing zero in    *)
(* the fraction).  Texts of at most six significant digits, as here, are   *)
(* equal as f32 exactly when they are equal as decimals.                   *)
(***************************************************************************)
DigitValue ==
  ("0" :> 0) @@ ("1" :> 1) @@ ("2" :> 2) @@ ("3" :> 3) @@ ("4" :> 4) @@
  ("5" :> 5) @@ ("6" :> 6) @@ ("7" :> 7) @@ ("8" :> 8) @@ ("9" :> 9)

RECURSIVE DecimalValue(_)
DecimalValue(digits) ==
  IF digits = <<>> THEN 0
  ELSE 10 * DecimalValue(SubSeq(digits, 1, Len(digits) - 1))
         + DigitValue[digits[Len(digits)]]

RECURSIVE StripTrailingZeros(_)
StripTrailingZeros(digits) ==
  IF digits # <<>> /\ digits[Len(digits)] = "0"
    THEN StripTrailingZeros(SubSeq(digits, 1, Len(digits) - 1))
    ELSE digits

DotPositions(text) == {i \in 1..Len(text) : text[i] = "."}

ParseError == [ok |-> FALSE]

parse_f32(text) ==
  IF Cardinality(DotPositions(text)) > 1 THEN ParseError
  ELSE IF DotPositions(text) = {}
    THEN [ok |-> TRUE, value |-> [mantissa |-> DecimalValue(text), scale |-> 0]]
  ELSE LET dot == CHOOSE i \in DotPositions(text) : TRUE
           whole == SubSeq(text, 1, dot - 1)
           fraction == StripTrailingZeros(SubSeq(text, dot + 1, Len(text)))
       IN  [ok |-> TRUE,
            value |-> [mantissa |-> DecimalValue(whole \o fraction),
                       scale |-> Len(fraction)]]

\* The `while let Some(&character) = code.peek()` loop of add_number_literal.
\* panicked: maybe_number.parse().unwrap() was called on an Err.
RECURSIVE number_literal_loop(_, _, _, _, _)
number_literal_loop(tokens, current_location, src, code, maybe_number) ==
  IF peek(src, code) = NoChar
    THEN [tokens |-> tokens, current_location |-> current_location,
          code |-> code, panicked |-> FALSE]
  ELSE LET character == peek(src, code) IN
    IF character \in Digits \/ character = "."
      THEN number_literal_loop(tokens, advance_col(current_location), src,
                               code + 1, Append(maybe_number, character))
      ELSE LET maybe_number_float == parse_f32(maybe_number) IN
           IF maybe_number_float.ok
             THEN [tokens |-> Append(tokens, Number(maybe_number_float.value)),
                   current_location |-> current_location,
                   code |-> code, panicked |-> FALSE]
             ELSE [tokens |-> tokens, current_location |-> current_location,
                   code |-> code, panicked |-> TRUE]

add_number_literal(tokens, first_digit, current_location, src, code) ==
  number_literal_loop(tokens, current_location, src, code, <<first_digit>>)

\* A lookup that never finds the accumulated text in the table.
identifier_or_keyword_token_never_found(identifier_or_keyword) ==
  Identifier(identifier_or_keyword)

\* LEXEME_TO_TOKEN_MAPPER.get(&identifier_or_keyword): Some(keyword) or None.
identifier_or_keyword_token(identifier_or_keyword) ==
  IF identifier_or_keyword \in DOMAIN LEXEME_TO_TOKEN_MAPPER
    THEN LEXEME_TO_TOKEN_MAPPER[identifier_or_keyword]
    ELSE Identifier(identifier_or_keyword)

\* The `while let Some(&character) = code.peek()` loop of
\* add_identifier_or_keyword.
RECURSIVE identifier_or_keyword_loop(_, _, _, _, _)
identifier_or_keyword_loop(tokens, current_location, src, code, identifier_or_keyword) ==
  IF peek(src, code) = NoChar
    THEN [tokens |-> tokens, current_location |-> current_location, code |-> code]
  ELSE LET character == peek(src, code) IN
    IF character \in Letters \cup Digits
      THEN identifier_or_keyword_loop(tokens, advance_col(current_location), src,
                                      code + 1, Append(identifier_or_keyword, character))
      ELSE [tokens |-> Append(tokens, identifier_or_keyword_token(identifier_or_keyword)),
            current_location |-> current_location,
            code |-> code]

add_identifier_or_keyword(tokens, first_character, current_location, src, code) ==
  identifier_or_keyword_loop(tokens, current_location, src, code, <<first_character>>)

(***************************************************************************)
(* Display for Token.  f32::to_string of a decimal of at most six          *)
(* significant digits writes the whole part and, when the fraction is not  *)
(* zero, a '.' and the fraction's digits.  NoLexeme stands for the panic   *)
(* of unwrap() on a token the table does not hold.                         *)
(***************************************************************************)
DigitChar == <<"0", "1", "2", "3", "4", "5", "6", "7", "8", "9">>

RECURSIVE NaturalToString(_)
NaturalToString(n) ==
  IF n < 10 THEN <<DigitChar[n + 1]>>
  ELSE Append(NaturalToString(n \div 10), DigitChar[(n % 10) + 1])

RECURSIVE PowerOfTen(_)
PowerOfTen(k) == IF k = 0 THEN 1 ELSE 10 * PowerOfTen(k - 1)

RECURSIVE ZeroPadded(_, _)
ZeroPadded(digits, width) ==
  IF Len(digits) >= width THEN digits ELSE ZeroPadded(<<"0">> \o digits, width)

f32_to_string(value) ==
  IF value.scale = 0 THEN NaturalToString(value.mantissa)
  ELSE NaturalToString(value.mantissa \div PowerOfTen(value.scale))
         \o <<".">>
         \o ZeroPadded(NaturalToString(value.mantissa % PowerOfTen(value.scale)),
                       value.scale)

NoLexeme == <<"<panic>">>

fmt(token) ==
  IF token.type = "Eof"
    THEN <<"E", "N", "D", "_", "O", "F", "_", "F", "I", "L", "E">>
  ELSE IF token.type = "LiteralToken"
    THEN IF token.kind = "Number" THEN f32_to_string(token.num)
         ELSE IF token.kind = "Identifier" THEN token.name
         ELSE token.str
  ELSE IF token \in DOMAIN TOKEN_TO_LEXEME_MAPPER
    THEN TOKEN_TO_LEXEME_MAPPER[token]
    ELSE NoLexeme

\* An error list that keeps the first error only.
push_unexpected_character_first_only(errors, character, location) ==
  IF errors = <<>>
    THEN Append(errors, UnexpectedCharacter(character, location))
    ELSE errors

\* errors.push(LexerError::UnexpectedCharacter { character, location }).
push_unexpected_character(errors, character, location) ==
  Append(errors, UnexpectedCharacter(character, location))

\* The end of lex: the Eof token is pushed, then Ok or Err is chosen.
NoResult == [kind |-> "None"]
Ok(stream) == [kind |-> "Ok", stream |-> stream]
Err(errs) == [kind |-> "Err", errors |-> errs]

\* A lex that forgets the Eof token.
lex_result_without_eof(tokens, errors) ==
  IF errors = <<>> THEN Ok(tokens) ELSE Err(errors)

\* A lex that returns Ok whatever was recorded.
lex_result_always_ok(tokens, errors) ==
  Ok(Append(tokens, Eof))

lex_result(tokens, errors) ==
  LET stream == Append(tokens, Eof)
  IN  IF errors = <<>> THEN Ok(stream) ELSE Err(errors)

(***************************************************************************)
(* lex as a function of the source and of the location the Lexer holds     *)
(* when it is called: the loop of lex from the iterator position code, one *)
(* iteration per character that code.next() returns.                       *)
(***************************************************************************)
RECURSIVE lex_loop(_, _, _, _, _)
lex_loop(src, code, location, tokens, errors) ==
  IF code >= Len(src)
    THEN [panicked |-> FALSE, result |-> lex_result(tokens, errors),
          tokens |-> tokens, errors |-> errors, current_location |-> location]
  ELSE LET c == src[code + 1] IN
    IF c \in Whitespace
      THEN lex_loop(src, code + 1, advance_col(location), tokens, errors)
    ELSE IF c = Newline
      THEN lex_loop(src, code + 1, advance_col(advance_row(location)), tokens, errors)
    ELSE IF c \in FixedSingleChars
      THEN lex_loop(src, code + 1, advance_col(location),
                    Append(tokens, LEXEME_TO_TOKEN_MAPPER[<<c>>]), errors)
    ELSE IF c \in DoubleOrSingleChars
      THEN LET r == add_double_or_single_token(tokens, c, src, code + 1)
           IN  lex_loop(src, r.code, advance_col(location), r.tokens, errors)
    ELSE IF c = "/"
      THEN LET r == consume_comment(tokens, c, location, src, code + 1)
           IN  lex_loop(src, r.code, advance_col(r.current_location), r.tokens, errors)
    ELSE IF c = Quote
      THEN LET r == add_string_literal(tokens, location, src, code + 1)
           IN  lex_loop(src, r.code, advance_col(r.current_location), r.tokens, errors)
    ELSE IF c \in Digits
      THEN LET r == add_number_literal(tokens, c, location, src, code + 1)
           IN  IF r.panicked
                 THEN [panicked |-> TRUE, result |-> NoResult, tokens |-> r.tokens,
                       errors |-> errors, current_location |-> r.current_location]
                 ELSE lex_loop(src, r.code, advance_col(r.current_location),
                               r.tokens, errors)
    ELSE IF c \in Letters
      THEN LET r == add_identifier_or_keyword(tokens, c, location, src, code + 1)
           IN  lex_loop(src, r.code, advance_col(r.current_location), r.tokens, errors)
    ELSE lex_loop(src, code + 1, advance_col(location), tokens,
                  push_unexpected_character(errors, c, location))

lex(src, location) == lex_loop(src, 0, location, <<>>, <<>>)

(***************************************************************************)
(* Source texts: every text of at most MaxLen characters of Alphabet (at   *)
(* least one character of every dispatch category), every fixed lexeme     *)
(* alone and followed by a blank, and longer texts of interest.            *)
(***************************************************************************)
Alphabet == {" ", "\n", "(", "!", "=", "/", "\"", "1", ".", "i", "f", "@", "#"}

BoundedSources == UNION {[1..n -> Alphabet] : n \in 0..MaxLen}

FixedLexemeSources ==
  DOMAIN LEXEME_TO_TOKEN_MAPPER
    \cup {l \o <<" ">> : l \in DOMAIN LEXEME_TO_TOKEN_MAPPER}

ExampleSources ==
  { <<"f", "o", "o", "b", "a", "r">>,
    <<"f", "o", "o", "b", "a", "r", ";">>,
    <<"_", "x", "1", " ">>,
    <<"c", "l", "a", "s", "s", "y", " ">>,
    <<"1", "2", "3", ".">>,
    <<"1", "2", "3", ".", " ">>,
    <<"1", ".", "5", "0", ";">>,
    <<"1", ".", "2", ".", "3">>,
    <<"1", ".", "2", ".", "3", " ">>,
    <<"1", ".", ".", ")">>,
    <<"@", "#", "$">>,
    <<"@", " ", "#", "i", "$", "1">>,
    <<"/", "/", " ", "c", "o", "m", "m", "e", "n", "t", "\n", "1">>,
    <<"\n", "f", "o", "o">>,
    <<"(", ")", "{", "}">>,
    <<"<", "=", ">", "=", "=", "=", "!", "=">>,
    <<"\"", "i", "f", "@", "\n", "\"", "@">>,
    <<"o", "r", " ", "o", "r", "c", ";">>,
    <<"\n", "/", "/", "\n", "\"", "\n", "\"", "@">>,
    <<"\"", "\\", "\"", "i", " ">>,
    <<"1", "\"", "=", "i", "\n", "@">> }

\* Line comments: // and a body without newline, ended by the end of the
\* input or by a newline and a text over Alphabet.
CommentBodyAlphabet == {"@", "\"", "i"}

CommentBodies == UNION {[1..n -> CommentBodyAlphabet] : n \in 0..MaxBody}

CommentSources ==
  {<<"/", "/">> \o c : c \in CommentBodies}
    \cup {<<"/", "/">> \o c \o <<Newline>> \o r :
            c \in CommentBodies, r \in UNION {[1..n -> Alphabet] : n \in 0..MaxRest}}

Sources ==
  BoundedSources \cup FixedLexemeSources \cup ExampleSources \cup CommentSources

(***************************************************************************)
(* State.                                                                  *)
(*   source_code, current_location  the fields of Lexer                    *)
(*   code, tokens, errors           the locals of lex                      *)
(*   pc          "idle" before a call of lex, "scan" inside its loop,      *)
(*               "returned" after it returned, "panicked" after it panicked *)
(*   result      what the last call returned                                *)
(*   calls       how many times lex was called                              *)
(*   dispatched  the source offsets (from 1) of the characters that the    *)
(*               loop of lex took with code.next(), in order                *)
(*   spans       for every token in tokens, the first and last source      *)
(*               offset of the characters taken in the iteration that      *)
(*               pushed it                                                  *)
(*   previous    what the call before the last one returned                *)
(***************************************************************************)
VARIABLES source_code, current_location, code, tokens, errors, pc, result,
          calls, dispatched, spans, previous

vars == <<source_code, current_location, code, tokens, errors, pc, result,
          calls, dispatched, spans, previous>>

\* Lexer::new(source_code)
Init ==
  /\ source_code \in Sources
  /\ current_location = LocationDefault
  /\ code = 0
  /\ tokens = <<>>
  /\ errors = <<>>
  /\ pc = "idle"
  /\ result = NoResult
  /\ calls = 0
  /\ dispatched = <<>>
  /\ spans = <<>>
  /\ previous = NoResult

\* lex is entered: errors, tokens and code are created.
LexCall ==
  /\ pc \in {"idle", "returned"}
  /\ calls < MaxCalls
  /\ calls' = calls + 1
  /\ pc' = "scan"
  /\ code' = 0
  /\ tokens' = <<>>
  /\ errors' = <<>>
  /\ result' = NoResult
  /\ dispatched' = <<>>
  /\ spans' = <<>>
  /\ previous' = result
  /\ UNCHANGED <<source_code, current_location>>

\* code.next() returned Some(character): the loop body will run on it.
Dispatching(class) ==
  /\ pc = "scan"
  /\ code < Len(source_code)
  /\ source_code[code + 1] \in class

character == source_code[code + 1]

\* The end of one iteration of the loop: the arm left the locals as given,
\* then self.current_location.advance_col() runs.
EndIteration(new_tokens, new_errors, new_location, new_code) ==
  /\ tokens' = new_tokens
  /\ errors' = new_errors
  /\ current_location' = advance_col(new_location)
  /\ code' = new_code
  /\ dispatched' = Append(dispatched, code + 1)
  /\ spans' = IF Len(new_tokens) > Len(tokens)
                THEN Append(spans, <<code + 1, new_code>>)
                ELSE spans
  /\ UNCHANGED <<source_code, pc, result, calls, previous>>

\* ' ' | '\r' | '\t' => {}
SkipWhitespace ==
  /\ Dispatching(Whitespace)
  /\ EndIteration(tokens, errors, current_location, code + 1)

\* '\n' => self.current_location.advance_row()
SkipNewline ==
  /\ Dispatching({Newline})
  /\ EndIteration(tokens, errors, advance_row(current_location), code + 1)

\* '(' ... '*' => tokens.push(LEXEME_TO_TOKEN_MAPPER.get(..).cloned().unwrap())
AddSingleToken ==
  /\ Dispatching(FixedSingleChars)
  /\ EndIteration(Append(tokens, LEXEME_TO_TOKEN_MAPPER[<<character>>]),
                  errors, current_location, code + 1)

\* '!' | '=' | '<' | '>' => Self::add_double_or_single_token(..)
AddDoubleOrSingleToken ==
  /\ Dispatching(DoubleOrSingleChars)
  /\ LET r == add_double_or_single_token(tokens, character, source_code, code + 1)
     IN  EndIteration(r.tokens, errors, current_location, r.code)

\* '/' => Self::consume_comment(..)
ConsumeComment ==
  /\ Dispatching({"/"})
  /\ LET r == consume_comment(tokens, character, current_location,
                              source_code, code + 1)
     IN  EndIteration(r.tokens, errors, r.current_location, r.code)

\* '"' => Self::add_string_literal(..)
AddStringLiteral ==
  /\ Dispatching({Quote})
  /\ LET r == add_string_literal(tokens, current_location, source_code, code + 1)
     IN  EndIteration(r.tokens, errors, r.current_location, r.code)

\* '0'..='9' => Self::add_number_literal(..); the unwrap of a failed parse
\* panics and lex never returns.
AddNumberLiteral ==
  /\ Dispatching(Digits)
  /\ LET r == add_number_literal(tokens, character, current_location,
                                 source_code, code + 1)
     IN  IF r.panicked
           THEN /\ pc' = "panicked"
                /\ code' = r.code
                /\ current_location' = r.current_location
                /\ dispatched' = Append(dispatched, code + 1)
                /\ UNCHANGED <<source_code, tokens, errors, result, calls, spans,
                               previous>>
           ELSE EndIteration(r.tokens, errors, r.current_location, r.code)

\* 'A'..='Z' | 'a'..='z' | '_' => Self::add_identifier_or_keyword(..)
AddIdentifierOrKeyword ==
  /\ Dispatching(Letters)
  /\ LET r == add_identifier_or_keyword(tokens, character, current_location,
                                        source_code, code + 1)
     IN  EndIteration(r.tokens, errors, r.current_location, r.code)

\* _ => errors.push(LexerError::UnexpectedCharacter { .. })
AddUnexpectedCharacter ==
  /\ pc = "scan"
  /\ code < Len(source_code)
  /\ character \notin Recognized
  /\ EndIteration(tokens,
                  push_unexpected_character(errors, character, current_location),
                  current_location, code + 1)

\* code.next() returned None: Eof is pushed and lex returns.
LexReturn ==
  /\ pc = "scan"
  /\ code >= Len(source_code)
  /\ pc' = "returned"
  /\ result' = lex_result(tokens, errors)
  /\ UNCHANGED <<source_code, current_location, code, tokens, errors, calls,
                 dispatched, spans, previous>>

Next ==
  \/ LexCall
  \/ SkipWhitespace
  \/ SkipNewline
  \/ AddSingleToken
  \/ AddDoubleOrSingleToken
  \/ ConsumeComment
  \/ AddStringLiteral
  \/ AddNumberLiteral
  \/ AddIdentifierOrKeyword
  \/ AddUnexpectedCharacter
  \/ LexReturn

Spec == Init /\ [][Next]_vars

(***************************************************************************)
(* Properties.                                                             *)
(***************************************************************************)
IsEof(token) == token.type = "Eof"
IsIdentifier(token) == token.type = "LiteralToken" /\ token.kind = "Identifier"
IsNumber(token) == token.type = "LiteralToken" /\ token.kind = "Number"

\* The characters the loop of lex took that are in no recognized category.
UnexpectedDispatched ==
  LET offsets == SelectSeq(dispatched, LAMBDA i : source_code[i] \notin Recognized)
  IN  [k \in 1..Len(offsets) |-> source_code[offsets[k]]]

ErrorCharacters(errs) == [k \in 1..Len(errs) |-> errs[k].character]

\* The last offset of the longest run of characters of class that starts
\* at offset i of src (i - 1 when src[i] is not in class).
RECURSIVE RunEnd(_, _, _)
RunEnd(src, i, class) ==
  IF i <= Len(src) /\ src[i] \in class THEN RunEnd(src, i + 1, class) ELSE i - 1

\* The tokens pushed for characters of src[i..j].
TokensOfSpan(i, j) == {t \in 1..Len(tokens) : spans[t][1] \in i..j}

\* C1: whenever lex returns Ok, the returned token sequence is non-empty,
\* its last element is Eof and no other element is Eof.
C1_ExactlyOneEof ==
  result.kind = "Ok" =>
    /\ Len(result.stream) >= 1
    /\ IsEof(result.stream[Len(result.stream)])
    /\ \A i \in 1..(Len(result.stream) - 1) : ~IsEof(result.stream[i])

C1_Witness ==
  /\ pc = "returned"
  /\ result.kind = "Ok"
  /\ Len(result.stream) >= 3

\* C2: when lex returns, it returns Ok exactly when no LexerError was
\* recorded during the scan (no character of an unrecognized category was
\* dispatched); otherwise it returns Err with every recorded error, so an
\* Err is never empty.
C2_OkIffNoError ==
  pc = "returned" =>
    /\ result.kind \in {"Ok", "Err"}
    /\ (result.kind = "Ok") <=> (errors = <<>>)
    /\ (result.kind = "Ok") <=> (UnexpectedDispatched = <<>>)
    /\ result.kind = "Err" =>
         /\ result.errors = errors
         /\ result.errors # <<>>
         /\ Len(result.errors) = Len(UnexpectedDispatched)

C2_Witness ==
  /\ pc = "returned"
  /\ result.kind = "Err"
  /\ Len(tokens) >= 1

\* C3: every dispatched character of no recognized category records exactly
\* one UnexpectedCharacter error carrying it, in source order; the scan
\* resumes at the next character; an Err result carries these errors in
\* that order; a source of n such characters yields Err with n errors.
C3_SkipAndContinue ==
  /\ ErrorCharacters(errors) = UnexpectedDispatched
  /\ \A k \in 1..Len(dispatched) :
       source_code[dispatched[k]] \notin Recognized =>
         IF k < Len(dispatched)
           THEN dispatched[k + 1] = dispatched[k] + 1
           ELSE code = dispatched[k]
  /\ (pc = "returned" /\ UnexpectedDispatched # <<>>) =>
       /\ result.kind = "Err"
       /\ ErrorCharacters(result.errors) = UnexpectedDispatched
  /\ (pc = "returned" /\ source_code # <<>>
        /\ \A i \in 1..Len(source_code) : source_code[i] \notin Recognized) =>
       /\ result.kind = "Err"
       /\ Len(result.errors) = Len(source_code)
       /\ \A i \in 1..Len(source_code) :
            result.errors[i].character = source_code[i]

C3_Witness ==
  /\ pc = "returned"
  /\ result.kind = "Err"
  /\ Len(result.errors) = 3
  /\ ErrorCharacters(result.errors) = <<"@", "#", "$">>

\* C4: lexing a source that is exactly one fixed lexeme of the table returns
\* Ok with two tokens, the table's token for the lexeme and Eof.
C4_FixedLexemeAlone ==
  (pc = "returned" /\ source_code \in DOMAIN LEXEME_TO_TOKEN_MAPPER) =>
    /\ result.kind = "Ok"
    /\ Len(result.stream) = 2
    /\ result.stream[1] = LEXEME_TO_TOKEN_MAPPER[source_code]
    /\ IsEof(result.stream[2])

\* C5: every maximal run of letters, digits and underscores that starts
\* with a letter or underscore and is not a keyword produces exactly one
\* Identifier token holding the whole run, whether a non-matching character
\* or the end of the input ends it.
C5_MaximalMunch ==
  \A k \in 1..Len(dispatched) :
    LET i == dispatched[k]
        j == RunEnd(source_code, i, Letters \cup Digits)
        run == SubSeq(source_code, i, j)
    IN  (/\ source_code[i] \in Letters
         /\ (i = 1 \/ source_code[i - 1] \notin Letters \cup Digits)
         /\ run \notin DOMAIN KeywordLexemes) =>
          /\ Cardinality(TokensOfSpan(i, j)) = 1
          /\ \A t \in TokensOfSpan(i, j) :
               /\ spans[t] = <<i, j>>
               /\ IsIdentifier(tokens[t])
               /\ tokens[t].name = run

\* C6: every maximal run of digits and '.' that starts with a digit and is
\* a well-formed decimal number produces exactly one Number token with the
\* run's value, whether another character or the end of the input ends it;
\* the source 123. yields Number(123.0) then Eof.
C6_NumberCapture ==
  /\ \A k \in 1..Len(dispatched) :
       LET i == dispatched[k]
           j == RunEnd(source_code, i, Digits \cup {"."})
           run == SubSeq(source_code, i, j)
       IN  (/\ source_code[i] \in Digits
            /\ (i = 1 \/ source_code[i - 1] \notin Letters \cup Digits \cup {"."})
            /\ Cardinality(DotPositions(run)) <= 1) =>
             /\ Cardinality(TokensOfSpan(i, j)) = 1
             /\ \A t \in TokensOfSpan(i, j) :
                  /\ spans[t] = <<i, j>>
                  /\ IsNumber(tokens[t])
                  /\ tokens[t].num = parse_f32(run).value
  /\ (pc = "returned" /\ source_code = <<"1", "2", "3", ".">>) =>
       /\ result.kind = "Ok"
       /\ Len(result.stream) = 2
       /\ IsNumber(result.stream[1])
       /\ result.stream[1].num = [mantissa |-> 123, scale |-> 0]
       /\ IsEof(result.stream[2])

\* C7: lex never aborts: it consumes the whole source and returns Ok or
\* Err, also when the source holds a digit run with more than one '.'.
C7_NeverAborts ==
  /\ pc # "panicked"
  /\ pc = "returned" =>
       /\ code = Len(source_code)
       /\ result.kind \in {"Ok", "Err"}

\* C8: no token sequence built by lex holds an Identifier whose text is a
\* keyword lexeme; a token pushed by the identifier scanner for source text
\* that is a keyword lexeme is that keyword's token.
C8_KeywordPrecedence ==
  /\ \A t \in 1..Len(tokens) :
       /\ IsIdentifier(tokens[t]) => tokens[t].name \notin DOMAIN KeywordLexemes
       /\ LET text == SubSeq(source_code, spans[t][1], spans[t][2])
          IN  text \in DOMAIN KeywordLexemes =>
                /\ tokens[t].type = "KeywordToken"
                /\ tokens[t].tag = KeywordLexemes[text]
  /\ result.kind = "Ok" =>
       \A t \in 1..Len(result.stream) :
         IsIdentifier(result.stream[t]) =>
           result.stream[t].name \notin DOMAIN KeywordLexemes

C8_Witness ==
  /\ pc = "returned"
  /\ result.kind = "Ok"
  /\ \E t \in 1..Len(result.stream) : result.stream[t].type = "KeywordToken"
  /\ \E t \in 1..Len(result.stream) : IsIdentifier(result.stream[t])

\* The two-character operator that starts with each character.
DoubleOf ==
  ("!" :> "NotEqual") @@ ("=" :> "EqualEqualSign") @@
  ("<" :> "LessThanOrEqual") @@ (">" :> "GreaterThanOrEqual")

\* C9: when the dispatch reads one of ! = < > and the next character is =,
\* exactly one token is pushed for the pair, the Double token of the pair,
\* and the = is consumed with it (it is not dispatched on its own).
C9_TwoCharacterGreedy ==
  \A k \in 1..Len(dispatched) :
    LET i == dispatched[k]
    IN  (/\ source_code[i] \in DoubleOrSingleChars
         /\ i < Len(source_code)
         /\ source_code[i + 1] = "=") =>
          /\ Cardinality(TokensOfSpan(i, i + 1)) = 1
          /\ \A t \in TokensOfSpan(i, i + 1) :
               /\ spans[t] = <<i, i + 1>>
               /\ tokens[t].type = "Double"
               /\ tokens[t].tag = DoubleOf[source_code[i]]
          /\ \A m \in 1..Len(dispatched) : dispatched[m] # i + 1
          /\ IF k < Len(dispatched) THEN dispatched[k + 1] = i + 2 ELSE code = i + 1

C9_Witness ==
  /\ pc = "returned"
  /\ \E t \in 1..Len(tokens) : tokens[t].type = "Double"
  /\ \E t \in 1..Len(tokens) : tokens[t].type = "Single"

\* The token the doc comments of SingleCharacterToken give each bracket.
DocumentedBracket ==
  ("(" :> "LeftParenthesis") @@ (")" :> "RightParenthesis") @@
  ("{" :> "LeftBrace") @@ ("}" :> "RightBrace")

\* C10: the token pushed for a bracket character is the one the doc
\* comments of SingleCharacterToken name for it.
C10_DocumentedBrackets ==
  \A t \in 1..Len(tokens) :
    LET c == source_code[spans[t][1]]
    IN  c \in DOMAIN DocumentedBracket =>
          /\ tokens[t].type = "Single"
          /\ tokens[t].tag = DocumentedBracket[c]

\* Every token of a fixed lexeme: the Keyword, Single and Double values.
FixedLexemeTokens ==
  {KeywordToken(k) : k \in Keyword}
    \cup {Single(t) : t \in SingleCharacterToken}
    \cup {Double(t) : t \in DoubleCharacterToken}

\* The two tables have the same number of entries and are mutual inverses;
\* every Keyword, Single and Double token has an entry.
TablesAreInverse ==
  /\ Cardinality(DOMAIN LEXEME_TO_TOKEN_MAPPER)
       = Cardinality(DOMAIN TOKEN_TO_LEXEME_MAPPER)
  /\ \A l \in DOMAIN LEXEME_TO_TOKEN_MAPPER :
       /\ LEXEME_TO_TOKEN_MAPPER[l] \in DOMAIN TOKEN_TO_LEXEME_MAPPER
       /\ TOKEN_TO_LEXEME_MAPPER[LEXEME_TO_TOKEN_MAPPER[l]] = l
  /\ \A t \in DOMAIN TOKEN_TO_LEXEME_MAPPER :
       /\ TOKEN_TO_LEXEME_MAPPER[t] \in DOMAIN LEXEME_TO_TOKEN_MAPPER
       /\ LEXEME_TO_TOKEN_MAPPER[TOKEN_TO_LEXEME_MAPPER[t]] = t
  /\ \A t \in FixedLexemeTokens :
       /\ t \in DOMAIN TOKEN_TO_LEXEME_MAPPER
       /\ fmt(t) # NoLexeme

\* C11: the lexeme-to-token and token-to-lexeme tables have the same number
\* of entries and are mutual inverses; every Keyword, Single and Double
\* token has an entry, so displaying it never fails; every such token that
\* lex pushed displays as the source text that produced it.
C11_TableInverse ==
  /\ TablesAreInverse
  /\ \A t \in 1..Len(tokens) :
       tokens[t].type \in {"KeywordToken", "Single", "Double"} =>
         fmt(tokens[t]) = SubSeq(source_code, spans[t][1], spans[t][2])

C11_Witness ==
  /\ pc = "returned"
  /\ \E t \in 1..Len(tokens) :
       /\ tokens[t].type = "Single"
       /\ source_code[spans[t][1]] = "("
       /\ fmt(tokens[t]) = <<"(">>
  /\ \E t \in 1..Len(tokens) :
       /\ tokens[t].type = "KeywordToken"
       /\ fmt(tokens[t]) = <<"i", "f">>

\* The offset of the first newline of src at or after offset i, 0 if none.
RECURSIVE FirstNewline(_, _)
FirstNewline(src, i) ==
  IF i > Len(src) THEN 0
  ELSE IF src[i] = Newline THEN i
  ELSE FirstNewline(src, i + 1)

\* C12: lexing // + c + newline + r gives the tokens and the offending
\* characters of lexing r alone (and aborts only if lexing r does), lexing
\* // + c gives only Eof; the comment yields no token and no error.
C12_CommentElision ==
  (Len(source_code) >= 2 /\ source_code[1] = "/" /\ source_code[2] = "/") =>
    LET nl == FirstNewline(source_code, 3)
        r == SubSeq(source_code, nl + 1, Len(source_code))
        alone == lex(r, LocationDefault)
        last == IF nl = 0 THEN Len(source_code) ELSE nl
    IN  /\ \A t \in 1..Len(tokens) : spans[t][1] > last
        /\ \A k \in 1..Len(dispatched) : dispatched[k] = 1 \/ dispatched[k] > last
        /\ (pc = "returned" /\ nl = 0) =>
             /\ result.kind = "Ok"
             /\ result.stream = <<Eof>>
        /\ (pc = "returned" /\ nl # 0) =>
             /\ ~alone.panicked
             /\ tokens = alone.tokens
             /\ ErrorCharacters(errors) = ErrorCharacters(alone.errors)
             /\ result.kind = alone.result.kind
             /\ result.kind = "Ok" => result.stream = alone.result.stream
             /\ result.kind = "Err" =>
                  ErrorCharacters(result.errors) = ErrorCharacters(alone.result.errors)
        /\ (pc = "panicked") => (nl # 0 /\ alone.panicked)

C12_Witness ==
  /\ pc = "returned"
  /\ Len(source_code) >= 2 /\ source_code[1] = "/" /\ source_code[2] = "/"
  /\ LET nl == FirstNewline(source_code, 3)
     IN  /\ nl > 4
         /\ \E i \in 3..(nl - 1) : source_code[i] = "@"
         /\ \E i \in 3..(nl - 1) : source_code[i] = Quote
         /\ tokens # <<>>
         /\ errors # <<>>

\* The source offsets of the recorded errors, in order.
ErrorOffsets ==
  SelectSeq(dispatched, LAMBDA i : source_code[i] \notin Recognized)

\* Offset i was taken by the loop of lex.
IsDispatched(i) == \E k \in 1..Len(dispatched) : dispatched[k] = i

\* Offset i lies in a line comment: from a dispatched // to its newline or
\* to the end of the input.
InComment(i) ==
  \E k \in 1..Len(dispatched) :
    LET d == dispatched[k]
        nl == FirstNewline(source_code, d + 2)
    IN  /\ d < Len(source_code)
        /\ source_code[d] = "/"
        /\ source_code[d + 1] = "/"
        /\ d <= i
        /\ i <= (IF nl = 0 THEN Len(source_code) ELSE nl)

\* C13: after lex returns, every source character is skipped whitespace or
\* newline, part of a line comment, part of the non-empty contiguous span
\* of exactly one pushed token, or the character of a recorded error; the
\* spans of the tokens lie in the source and do not overlap.
C13_ConsumptionAccounting ==
  pc = "returned" =>
    /\ Len(spans) = Len(tokens)
    /\ \A t \in 1..Len(spans) :
         /\ 1 <= spans[t][1]
         /\ spans[t][1] <= spans[t][2]
         /\ spans[t][2] <= Len(source_code)
    /\ \A i \in 1..Len(source_code) :
         \/ IsDispatched(i) /\ source_code[i] \in Whitespace \cup {Newline}
         \/ InComment(i)
         \/ Cardinality({t \in 1..Len(spans) :
                           spans[t][1] <= i /\ i <= spans[t][2]}) = 1
         \/ \E k \in 1..Len(errors) :
              /\ k <= Len(ErrorOffsets)
              /\ ErrorOffsets[k] = i
              /\ errors[k].character = source_code[i]

\* C14: on a fresh Lexer, an unexpected character that is the first
\* character of a line after a newline is reported with column 0, the
\* column reported for an unexpected first character of the source; the
\* error for newline then '@' has line 1 and that column.
C14_ColumnResetOnNewline ==
  calls = 1 =>
    /\ \A k \in 1..Len(errors) :
         LET i == ErrorOffsets[k]
         IN  (i = 1 \/ source_code[i - 1] = Newline) =>
               errors[k].location.column_number = 0
    /\ (source_code = <<Newline, "@">> /\ pc = "returned") =>
         /\ Len(errors) = 1
         /\ errors[1].location = [line_number |-> 1, column_number |-> 0]

\* The one-character token of each character that has a look-ahead, and
\* the second character its look-ahead expects.
SingleOf ==
  ("!" :> "Not") @@ ("=" :> "EqualSign") @@ ("<" :> "LessThan") @@
  (">" :> "GreaterThan") @@ ("/" :> "Slash")

ExpectedAfter ==
  ("!" :> "=") @@ ("=" :> "=") @@ ("<" :> "=") @@ (">" :> "=") @@ ("/" :> "/")

\* C15: for c in ! = < > / and x not the character the look-ahead expects,
\* lexing c + x + r pushes the Single token of c and then exactly the
\* tokens and the offending characters of lexing x + r alone: x is
\* dispatched as a fresh character.
C15_LookAheadKeepsMismatch ==
  (/\ Len(source_code) >= 2
   /\ source_code[1] \in DOMAIN SingleOf
   /\ source_code[2] # ExpectedAfter[source_code[1]]) =>
    LET alone == lex(SubSeq(source_code, 2, Len(source_code)), LocationDefault)
    IN  /\ Len(dispatched) >= 2 => dispatched[2] = 2
        /\ Len(tokens) >= 1 =>
             /\ tokens[1].type = "Single"
             /\ tokens[1].tag = SingleOf[source_code[1]]
             /\ spans[1] = <<1, 1>>
        /\ pc = "returned" =>
             /\ ~alone.panicked
             /\ Len(tokens) >= 1
             /\ SubSeq(tokens, 2, Len(tokens)) = alone.tokens
             /\ ErrorCharacters(errors) = ErrorCharacters(alone.errors)
        /\ pc = "panicked" => alone.panicked

C15_Witness ==
  /\ pc = "returned"
  /\ Len(source_code) >= 3
  /\ source_code[1] \in DOMAIN SingleOf
  /\ source_code[2] \in {"!", "=", "/", "@"}
  /\ source_code[2] # ExpectedAfter[source_code[1]]
  /\ Len(tokens) >= 2

\* The number of newlines among the first n characters of the source.
NewlinesBefore(n) ==
  Cardinality({j \in 1..n : source_code[j] = Newline})

\* C16: on a fresh Lexer and a source without newline, the column of each
\* UnexpectedCharacter error is the number of source characters before the
\* offending character.
C16_OneColumnPerCharacter ==
  (calls = 1 /\ NewlinesBefore(Len(source_code)) = 0) =>
    \A k \in 1..Len(errors) :
      errors[k].location.column_number = ErrorOffsets[k] - 1

\* C17: on a fresh Lexer, the line of each UnexpectedCharacter error is the
\* number of newlines before the offending character, whether the loop of
\* lex, a line comment or a string literal consumed them.
C17_LineCounting ==
  calls = 1 =>
    \A k \in 1..Len(errors) :
      errors[k].location.line_number = NewlinesBefore(ErrorOffsets[k] - 1)

C17_Witness ==
  /\ calls = 1
  /\ pc = "returned"
  /\ source_code = <<Newline, "/", "/", Newline, Quote, Newline, Quote, "@">>
  /\ Len(errors) = 1
  /\ errors[1].location.line_number = 3

\* The offset of the first double quote of src at or after offset i, 0 if
\* none.
RECURSIVE NextQuote(_, _)
NextQuote(src, i) ==
  IF i > Len(src) THEN 0
  ELSE IF src[i] = Quote THEN i
  ELSE NextQuote(src, i + 1)

\* C18: when the dispatch reads a double quote and a later one exists,
\* exactly one token is pushed for the text up to the first following
\* quote, a StringLiteral whose value is the characters strictly between
\* the two quotes; no enclosed character is dispatched, so none gives a
\* token or an error, and the scan resumes right after the closing quote.
C18_TerminatedString ==
  \A k \in 1..Len(dispatched) :
    LET i == dispatched[k]
        j == NextQuote(source_code, i + 1)
    IN  (source_code[i] = Quote /\ j # 0) =>
          /\ Cardinality(TokensOfSpan(i, j)) = 1
          /\ \A t \in TokensOfSpan(i, j) :
               /\ spans[t] = <<i, j>>
               /\ tokens[t].type = "LiteralToken"
               /\ tokens[t].kind = "StringLiteral"
               /\ tokens[t].str = SubSeq(source_code, i + 1, j - 1)
          /\ \A m \in 1..Len(dispatched) : dispatched[m] \notin (i + 1)..j
          /\ \A e \in 1..Len(ErrorOffsets) : ErrorOffsets[e] \notin i..j
          /\ Len(errors) = Len(ErrorOffsets)
          /\ IF k < Len(dispatched) THEN dispatched[k + 1] = j + 1 ELSE code = j

C18_Witness ==
  /\ pc = "returned"
  /\ result.kind = "Ok"
  /\ Len(result.stream) = 3
  /\ result.stream[1].type = "LiteralToken"
  /\ result.stream[1].kind = "StringLiteral"
  /\ result.stream[1].str = <<"\\">>
  /\ IsIdentifier(result.stream[2])

C20_RepeatableScan ==
  (calls >= 2 /\ pc = "returned") =>
    /\ result.kind = previous.kind
    /\ result.kind = "Ok" => result.stream = previous.stream
    /\ result.kind = "Err" => result.errors = previous.errors

====
